---------------------------- MODULE Spec2Model ----------------------------
(***************************************************************************)
(* A model of CS280::AVLmap (src/avl-map.h, src/avl-map.cpp): an ordered   *)
(* key-value map stored as a binary search tree of heap nodes with parent  *)
(* links, rebalanced by rotations after insertion and erasure.             *)
(*                                                                         *)
(* The heap is a function from node addresses to node records; `live` is   *)
(* the set of addresses currently allocated.  Each public operation of the *)
(* class is one action; the private helpers are operators that take and    *)
(* return a tree state T = [heap, live, root, size].                       *)
(***************************************************************************)
EXTENDS Integers, Sequences, FiniteSets, TLC

(***************************************************************************)
(* Bounds of the model.                                                    *)
(***************************************************************************)
MaxKey == 4        \* keys are 1..MaxKey where keys are inserted and erased
MaxInsKey == 7     \* keys are 1..MaxInsKey where keys are only inserted
MaxValKey == 3     \* keys are 1..MaxValKey where values are written too
MaxMapsKey == 2    \* keys are 1..MaxMapsKey where two map objects are used
MaxCopyKey == 2    \* keys are 1..MaxCopyKey where copies are made and changed
MaxVal == 1        \* values are 0..MaxVal
MaxNodes == 7      \* heap addresses are 1..MaxNodes
MaxHeight == 2     \* cap on the stored height field (it can drift upwards)

NULL == 0
DefaultValue == 0

Keys == 1..MaxKey
InsKeys == 1..MaxInsKey
ValKeys == 1..MaxValKey
MapsKeys == 1..MaxMapsKey
CopyKeys == 1..MaxCopyKey
Values == 0..MaxVal
NodeIds == 1..MaxNodes
Maps == {1, 2}

VARIABLES
    heap,         \* node address -> node record
    live,         \* the allocated addresses
    constructed,  \* the AVLmap objects whose lifetime has begun
    mRoot,        \* AVLmap::mRoot of each object
    size_,        \* AVLmap::size_ of each object
    op            \* the public operation completed last, with its result

vars == <<heap, live, constructed, mRoot, size_, op>>

(***************************************************************************)
(* Node::Node: the record a constructed node holds.                        *)
(***************************************************************************)
Node(k, val, p, h, b, l, r) ==
    [key |-> k, value |-> val, height |-> h, balance |-> b,
     parent |-> p, left |-> l, right |-> r]

\* The content of an address that is not allocated (never read by the model).
Freed == Node(0, 0, NULL, 0, 0, NULL, NULL)

Abs(x) == IF x < 0 THEN -x ELSE x

Max(a, b) == IF a > b THEN a ELSE b

\* F applied to the value of v: v is evaluated once, like a local variable
\* that is assigned once and read several times.
Eval(v, F(_)) == CHOOSE r \in {F(x) : x \in {v}} : TRUE

\* `new Node`: the allocator hands out an unallocated address.  Which one is
\* unspecified, and the program only compares addresses for equality, so its
\* behaviour does not depend on the choice: the model takes the address
\* numbered like the key when that one is free; when a node with the same key
\* (of another map) has it, the address half the heap further up if that one is
\* free; and the least free address otherwise.
NewAddr(T, key) ==
    LET free   == NodeIds \ T.live
        second == key + (MaxNodes \div 2)
    IN  IF key \in free THEN key
        ELSE IF key \in NodeIds /\ T.heap[key].key = key /\ second \in free
             THEN second
        ELSE CHOOSE n \in free : \A m \in free : n <= m

(***************************************************************************)
(* Node::first, Node::last, Node::increment, Node::decrement               *)
(***************************************************************************)
RECURSIVE first(_, _)
first(h, n) == IF h[n].left = NULL THEN n ELSE first(h, h[n].left)

\* A bug: the rightmost node is taken to be the node itself.
lastShallow(h, n) == n

RECURSIVE last(_, _)
last(h, n) == IF h[n].right = NULL THEN n ELSE last(h, h[n].right)

RECURSIVE IncWalk(_, _, _)
IncWalk(h, walker, parentWalker) ==
    IF parentWalker # NULL /\ h[parentWalker].right = walker
    THEN IncWalk(h, parentWalker, h[parentWalker].parent)
    ELSE parentWalker

\* A bug: without a right child the parent is returned, whichever side the
\* node hangs on.
incrementNoWalk(h, n) ==
    IF h[n].right # NULL THEN first(h, h[n].right)
    ELSE h[n].parent

increment(h, n) ==
    IF h[n].right # NULL THEN first(h, h[n].right)
    ELSE IF h[n].parent = NULL THEN NULL
    ELSE IncWalk(h, n, h[n].parent)

RECURSIVE DecWalk(_, _, _)
DecWalk(h, walker, parentWalker) ==
    IF parentWalker # NULL /\ h[parentWalker].left = walker
    THEN DecWalk(h, parentWalker, h[parentWalker].parent)
    ELSE parentWalker

\* A bug: the successor is taken where the predecessor is meant.
decrementForward(h, n) ==
    IF h[n].right # NULL THEN first(h, h[n].right)
    ELSE IF h[n].parent = NULL THEN NULL
    ELSE IncWalk(h, n, h[n].parent)

\* A bug: the node is returned as its own predecessor.
decrementSelf(h, n) == n

decrement(h, n) ==
    IF h[n].left # NULL THEN last(h, h[n].left)
    ELSE IF h[n].parent # NULL /\ h[h[n].parent].right = n THEN h[n].parent
    ELSE DecWalk(h, n, h[n].parent)

(***************************************************************************)
(* AVLmap::FindNode                                                        *)
(***************************************************************************)
\* A bug: the search descends into the wrong subtree.
RECURSIVE FindNodeWrongWay(_, _, _)
FindNodeWrongWay(h, tree, key) ==
    IF tree = NULL THEN tree
    ELSE IF h[tree].key = key THEN tree
    ELSE IF h[tree].key < key THEN FindNodeWrongWay(h, h[tree].left, key)
    ELSE FindNodeWrongWay(h, h[tree].right, key)

\* A bug: the search looks at the first node only.
FindNodeShallow(h, tree, key) ==
    IF tree = NULL THEN tree
    ELSE IF h[tree].key = key THEN tree
    ELSE NULL

RECURSIVE FindNode(_, _, _)
FindNode(h, tree, key) ==
    IF tree = NULL THEN tree
    ELSE IF h[tree].key = key THEN tree
    ELSE IF h[tree].key < key THEN FindNode(h, h[tree].right, key)
    ELSE FindNode(h, h[tree].left, key)

(***************************************************************************)
(* AVLmap::GetSubtreeHeight, AVLmap::GetSubtreeBalance                     *)
(***************************************************************************)
RECURSIVE GetSubtreeHeight(_, _)
GetSubtreeHeight(h, node) ==
    IF node = NULL THEN -1
    ELSE 1 + Max(GetSubtreeHeight(h, h[node].left), GetSubtreeHeight(h, h[node].right))

GetSubtreeBalance(h, node) ==
    IF node = NULL THEN -1
    ELSE GetSubtreeHeight(h, h[node].left) - GetSubtreeHeight(h, h[node].right)

(***************************************************************************)
(* AVLmap::UpdateSubtreeHeights: preorder, height := parent's height + 1.  *)
(***************************************************************************)
\* A bug: only the top node of the subtree gets its height recomputed.
UpdateSubtreeHeightsTopOnly(h, subtree) ==
    IF subtree = NULL THEN h
    ELSE [h EXCEPT ![subtree].height =
             IF h[subtree].parent # NULL
             THEN h[h[subtree].parent].height + 1 ELSE 0]

RECURSIVE UpdateSubtreeHeights(_, _)
UpdateSubtreeHeights(h, subtree) ==
    IF subtree = NULL THEN h
    ELSE LET p  == h[subtree].parent
             h1 == [h EXCEPT ![subtree].height =
                        IF p # NULL THEN h[p].height + 1 ELSE 0]
         IN  Eval(UpdateSubtreeHeights(h1, h1[subtree].left),
                  LAMBDA h2 : UpdateSubtreeHeights(h2, h2[subtree].right))

(***************************************************************************)
(* AVLmap::RotateRootRight, AVLmap::RotateRootLeft                         *)
(***************************************************************************)
RotateRootRight(T) ==
    LET h       == T.heap
        temp    == T.root
        newRoot == h[T.root].left
        h1 == [h  EXCEPT ![newRoot].parent = NULL]
        h2 == [h1 EXCEPT ![temp].parent = newRoot]
        h3 == [h2 EXCEPT ![temp].left = h2[newRoot].right]
        h4 == IF h3[temp].left # NULL
              THEN [h3 EXCEPT ![h3[temp].left].parent = temp] ELSE h3
        h5 == [h4 EXCEPT ![newRoot].right = temp]
    IN  [T EXCEPT !.root = newRoot, !.heap = UpdateSubtreeHeights(h5, newRoot)]

\* A bug: the new root keeps its parent link to the old root.
RotateRootLeftKeepParent(T) ==
    LET h       == T.heap
        temp    == T.root
        newRoot == h[T.root].right
        h2 == [h  EXCEPT ![temp].parent = newRoot]
        h3 == [h2 EXCEPT ![temp].right = h2[newRoot].left]
        h4 == IF h3[temp].right # NULL
              THEN [h3 EXCEPT ![h3[temp].right].parent = temp] ELSE h3
        h5 == [h4 EXCEPT ![newRoot].left = temp]
    IN  [T EXCEPT !.root = newRoot, !.heap = UpdateSubtreeHeights(h5, newRoot)]

RotateRootLeft(T) ==
    LET h       == T.heap
        temp    == T.root
        newRoot == h[T.root].right
        h1 == [h  EXCEPT ![newRoot].parent = NULL]
        h2 == [h1 EXCEPT ![temp].parent = newRoot]
        h3 == [h2 EXCEPT ![temp].right = h2[newRoot].left]
        h4 == IF h3[temp].right # NULL
              THEN [h3 EXCEPT ![h3[temp].right].parent = temp] ELSE h3
        h5 == [h4 EXCEPT ![newRoot].left = temp]
    IN  [T EXCEPT !.root = newRoot, !.heap = UpdateSubtreeHeights(h5, newRoot)]

(***************************************************************************)
(* AVLmap::RotateRight, AVLmap::RotateLeft.  The argument is a reference   *)
(* to the caller's pointer variable; the result carries the tree state and *)
(* the value that variable holds on return.                                *)
(***************************************************************************)
\* A bug: the promoted child's inner subtree is not handed to the old node.
RotateRightDropsTransplant(T, node) ==
    IF node = T.root THEN [T |-> RotateRootRight(T), node |-> node]
    ELSE
    LET h          == T.heap
        temp       == node
        nodeParent == h[node].parent
        h1 == IF node = h[nodeParent].left
              THEN [h EXCEPT ![nodeParent].left = h[node].left]
              ELSE [h EXCEPT ![nodeParent].right = h[node].left]
        n2 == h1[node].left
        h2 == [h1 EXCEPT ![n2].parent = nodeParent]
        h3 == [h2 EXCEPT ![temp].parent = n2]
        h4 == [h3 EXCEPT ![temp].left = NULL]
        h6 == [h4 EXCEPT ![n2].right = temp]
    IN  [T |-> [T EXCEPT !.heap = UpdateSubtreeHeights(h6, n2)], node |-> n2]

RotateRight(T, node) ==
    IF node = T.root THEN [T |-> RotateRootRight(T), node |-> node]
    ELSE
    LET h          == T.heap
        temp       == node
        nodeParent == h[node].parent
        h1 == IF node = h[nodeParent].left
              THEN [h EXCEPT ![nodeParent].left = h[node].left]
              ELSE [h EXCEPT ![nodeParent].right = h[node].left]
        n2 == h1[node].left
        h2 == [h1 EXCEPT ![n2].parent = nodeParent]
        h3 == [h2 EXCEPT ![temp].parent = n2]
        h4 == [h3 EXCEPT ![temp].left = h3[n2].right]
        h5 == IF h4[temp].left # NULL
              THEN [h4 EXCEPT ![h4[temp].left].parent = temp] ELSE h4
        h6 == [h5 EXCEPT ![n2].right = temp]
    IN  [T |-> [T EXCEPT !.heap = UpdateSubtreeHeights(h6, n2)], node |-> n2]

\* A bug: the promoted child is always hung on the left of the parent.
RotateLeftWrongSide(T, node) ==
    IF node = T.root THEN [T |-> RotateRootLeft(T), node |-> node]
    ELSE
    LET h          == T.heap
        temp       == node
        nodeParent == h[node].parent
        h1 == [h EXCEPT ![nodeParent].left = h[node].right]
        n2 == h1[node].right
        h2 == [h1 EXCEPT ![n2].parent = nodeParent]
        h3 == [h2 EXCEPT ![temp].parent = n2]
        h4 == [h3 EXCEPT ![temp].right = h3[n2].left]
        h5 == IF h4[temp].right # NULL
              THEN [h4 EXCEPT ![h4[temp].right].parent = temp] ELSE h4
        h6 == [h5 EXCEPT ![n2].left = temp]
    IN  [T |-> [T EXCEPT !.heap = UpdateSubtreeHeights(h6, n2)], node |-> n2]

RotateLeft(T, node) ==
    IF node = T.root THEN [T |-> RotateRootLeft(T), node |-> node]
    ELSE
    LET h          == T.heap
        temp       == node
        nodeParent == h[node].parent
        h1 == IF node = h[nodeParent].left
              THEN [h EXCEPT ![nodeParent].left = h[node].right]
              ELSE [h EXCEPT ![nodeParent].right = h[node].right]
        n2 == h1[node].right
        h2 == [h1 EXCEPT ![n2].parent = nodeParent]
        h3 == [h2 EXCEPT ![temp].parent = n2]
        h4 == [h3 EXCEPT ![temp].right = h3[n2].left]
        h5 == IF h4[temp].right # NULL
              THEN [h4 EXCEPT ![h4[temp].right].parent = temp] ELSE h4
        h6 == [h5 EXCEPT ![n2].left = temp]
    IN  [T |-> [T EXCEPT !.heap = UpdateSubtreeHeights(h6, n2)], node |-> n2]

(***************************************************************************)
(* AVLmap::BalanceTree.  `nodes` is the std::stack (top = last element).   *)
(* The result also records the nodes popped and examined, in order, the    *)
(* number of rotation primitives called, the number of corrective steps    *)
(* and the trace of the pass: each pop, each read through a child pointer  *)
(* and each rotation call, with the node it is applied to and the tree     *)
(* state at that moment.  The locals of the loop body (y, leftSubtree,     *)
(* rightSubtree, balance) are bound once per iteration with Eval.          *)
(***************************************************************************)
Step(fn, node, T) == [fn |-> fn, node |-> node, T |-> T]

\* A bug: the test lets a height difference of 2 pass.
WithinBalanceLoose(leftSubtreeHeight, rightSubtreeHeight) ==
    Abs(leftSubtreeHeight - rightSubtreeHeight) <= 2

\* The test of BalanceTree for a node that needs no rotation.
WithinBalance(leftSubtreeHeight, rightSubtreeHeight) ==
    Abs(leftSubtreeHeight - rightSubtreeHeight) <= 1

\* BalanceTree's step for a node y that is heavy on the left: a right rotation
\* of y, after a left rotation of its left child when that child is heavy on
\* the right.  The result carries the tree state, the number of rotation
\* calls and their trace.
FixLeftHeavy(T, y, leftSubtree) ==
    IF GetSubtreeHeight(T.heap, T.heap[leftSubtree].left)
           >= GetSubtreeHeight(T.heap, T.heap[leftSubtree].right)
    THEN [T |-> RotateRight(T, y).T, rots |-> 1,
          trace |-> <<Step("read", leftSubtree, T),
                      Step("RotateRight", y, T)>>]
    ELSE Eval(RotateLeft(T, leftSubtree).T,
              LAMBDA TL :
         [T |-> RotateRight(TL, y).T, rots |-> 2,
          trace |-> <<Step("read", leftSubtree, T),
                      Step("RotateLeft", leftSubtree, T),
                      Step("RotateRight", y, TL)>>])

\* The step for a node y that is heavy on the right.
FixRightHeavy(T, y, rightSubtree) ==
    IF GetSubtreeHeight(T.heap, T.heap[rightSubtree].right)
           >= GetSubtreeHeight(T.heap, T.heap[rightSubtree].left)
    THEN [T |-> RotateLeft(T, y).T, rots |-> 1,
          trace |-> <<Step("read", rightSubtree, T),
                      Step("RotateLeft", y, T)>>]
    ELSE Eval(RotateRight(T, rightSubtree).T,
              LAMBDA TR :
         [T |-> RotateLeft(TR, y).T, rots |-> 2,
          trace |-> <<Step("read", rightSubtree, T),
                      Step("RotateRight", rightSubtree, T),
                      Step("RotateLeft", y, TR)>>])

\* A test that is not taken.
NoFix(T) == [T |-> T, rots |-> 0, trace |-> <<>>]

\* A bug: the corrective step is always a single rotation.
RECURSIVE BalanceTreeSingleOnly(_, _, _)
BalanceTreeSingleOnly(T, nodes, inserting) ==
    IF nodes = <<>> THEN [T |-> T, examined |-> <<>>, rots |-> 0, fixes |-> 0,
          trace |-> <<>>]
    ELSE
    LET y            == nodes[Len(nodes)]
        rest         == SubSeq(nodes, 1, Len(nodes) - 1)
        h            == T.heap
        balance      == GetSubtreeBalance(h, y)
    IN
    IF WithinBalance(GetSubtreeHeight(h, h[y].left),
                     GetSubtreeHeight(h, h[y].right))
    THEN LET r == BalanceTreeSingleOnly(T, rest, inserting)
         IN  [r EXCEPT !.examined = <<y>> \o @,
                       !.trace = <<Step("pop", y, T)>> \o @]
    ELSE
    LET T2 == IF balance > 1 THEN RotateRight(T, y).T ELSE RotateLeft(T, y).T
    IN
    IF inserting
    THEN [T |-> T2, examined |-> <<y>>, rots |-> 1, fixes |-> 1,
          trace |-> <<Step("pop", y, T)>>]
    ELSE Eval(BalanceTreeSingleOnly(T2, rest, inserting),
              LAMBDA r : [T |-> r.T, examined |-> <<y>> \o r.examined,
                          rots |-> 1 + r.rots, fixes |-> 1 + r.fixes,
                          trace |-> <<Step("pop", y, T)>> \o r.trace])

RECURSIVE BalanceTree(_, _, _)
BalanceTree(T, nodes, inserting) ==
    IF nodes = <<>>
    THEN [T |-> T, examined |-> <<>>, rots |-> 0, fixes |-> 0, trace |-> <<>>]
    ELSE
    Eval(nodes[Len(nodes)], LAMBDA y :
    Eval(SubSeq(nodes, 1, Len(nodes) - 1), LAMBDA rest :
    Eval(T.heap[y].left, LAMBDA leftSubtree :
    Eval(T.heap[y].right, LAMBDA rightSubtree :
    Eval(GetSubtreeBalance(T.heap, y), LAMBDA balance :
    IF WithinBalance(GetSubtreeHeight(T.heap, leftSubtree),
                     GetSubtreeHeight(T.heap, rightSubtree))
    THEN Eval(BalanceTree(T, rest, inserting),
              LAMBDA r : [r EXCEPT !.examined = <<y>> \o @,
                                   !.trace = <<Step("pop", y, T)>> \o @])
    ELSE
    Eval(IF balance > 1 THEN FixLeftHeavy(T, y, leftSubtree) ELSE NoFix(T),
         LAMBDA f1 :
    Eval(IF balance < -1 THEN FixRightHeavy(f1.T, y, rightSubtree)
                         ELSE NoFix(f1.T),
         LAMBDA f2 :
    IF inserting
    THEN [T |-> f2.T, examined |-> <<y>>, rots |-> f1.rots + f2.rots,
          fixes |-> 1,
          trace |-> <<Step("pop", y, T)>> \o f1.trace \o f2.trace]
    ELSE Eval(BalanceTree(f2.T, rest, inserting),
              LAMBDA r :
         [T |-> r.T, examined |-> <<y>> \o r.examined,
          rots |-> f1.rots + f2.rots + r.rots, fixes |-> 1 + r.fixes,
          trace |-> <<Step("pop", y, T)>> \o f1.trace \o f2.trace
                        \o r.trace]))))))))

(***************************************************************************)
(* AVLmap::InsertItem.  The result carries the tree state, the returned    *)
(* node pointer and the stack of visited nodes.                            *)
(***************************************************************************)
RECURSIVE InsertItem(_, _, _, _, _, _)
InsertItem(T, tree, parentNode, key, value, nodes) ==
    IF tree = NULL
    THEN LET height == IF parentNode # NULL
                       THEN T.heap[parentNode].height + 1 ELSE 0
             n == NewAddr(T, key)
         IN  [T |-> [heap |-> [T.heap EXCEPT ![n] =
                                  Node(key, value, parentNode, height, 0, NULL, NULL)],
                     live |-> T.live \cup {n},
                     root |-> IF T.root = NULL THEN n ELSE T.root,
                     size |-> T.size + 1],
              ret |-> n, nodes |-> nodes]
    ELSE IF key < T.heap[tree].key
    THEN Eval(InsertItem(T, T.heap[tree].left, tree, key, value,
                         Append(nodes, tree)),
              LAMBDA r : [T |-> [r.T EXCEPT !.heap[tree].left = r.ret],
                          ret |-> tree, nodes |-> r.nodes])
    ELSE IF key > T.heap[tree].key
    THEN Eval(InsertItem(T, T.heap[tree].right, tree, key, value,
                         Append(nodes, tree)),
              LAMBDA r : [T |-> [r.T EXCEPT !.heap[tree].right = r.ret],
                          ret |-> tree, nodes |-> r.nodes])
    ELSE [T |-> T, ret |-> tree, nodes |-> nodes]

(***************************************************************************)
(* AVLmap::FreeNode, AVLmap::DeleteLeafNode, AVLmap::DeleteItem            *)
(* size_ is an unsigned int; the model holds it as the representative of   *)
(* its residue modulo 2^32 nearest zero, so --size_ at 0 (UINT_MAX in the  *)
(* program) shows as -1 and never equals a node count.                     *)
(***************************************************************************)
\* A bug: the node is deleted but size_ is not decremented.
FreeNodeNoCount(T, node) ==
    [T EXCEPT !.heap[node] = Freed, !.live = @ \ {node}]

\* A bug: size_ is decremented but the node is never deleted.
FreeNodeLeak(T, node) == [T EXCEPT !.size = @ - 1]

FreeNode(T, node) ==
    [T EXCEPT !.heap[node] = Freed,
              !.live = @ \ {node},
              !.size = @ - 1]

\* A bug: the leaf is detached from its parent but never freed.
DeleteLeafNodeNoFree(T, node) ==
    LET p == T.heap[node].parent
    IN  IF node = T.root
        THEN [T EXCEPT !.root = NULL]
        ELSE IF node = T.heap[p].left
             THEN [T EXCEPT !.heap[p].left = NULL]
             ELSE [T EXCEPT !.heap[p].right = NULL]

DeleteLeafNode(T, node) ==
    LET p  == T.heap[node].parent
        T1 == IF node = T.root
              THEN [T EXCEPT !.root = NULL]
              ELSE IF node = T.heap[p].left
                   THEN [T EXCEPT !.heap[p].left = NULL]
                   ELSE [T EXCEPT !.heap[p].right = NULL]
    IN  FreeNode(T1, node)

\* A bug: only the predecessor's key is copied up, the value is left behind.
CopyDataKeyOnly(h, tree, pred) == [h EXCEPT ![tree].key = h[pred].key]

\* A bug: only the predecessor's value is copied up, the key stays.
CopyDataValueOnly(h, tree, pred) == [h EXCEPT ![tree].value = h[pred].value]

\* The two-children case of DeleteItem: set the data in the node to the
\* predecessor's data.
CopyData(h, tree, pred) ==
    LET h1 == [h EXCEPT ![tree].value = h[pred].value]
    IN  [h1 EXCEPT ![tree].key = h1[pred].key]

RECURSIVE DeleteItem(_, _, _)
DeleteItem(T, tree, key) ==
    IF tree = NULL THEN T
    ELSE IF key < T.heap[tree].key THEN DeleteItem(T, T.heap[tree].left, key)
    ELSE IF key > T.heap[tree].key THEN DeleteItem(T, T.heap[tree].right, key)
    ELSE
    LET nd == T.heap[tree] IN
    IF nd.left = NULL /\ nd.right = NULL
    THEN DeleteLeafNode(T, tree)
    ELSE IF nd.left # NULL /\ nd.right # NULL
    THEN Eval(CopyData(T.heap, tree, decrement(T.heap, tree)),
              LAMBDA h2 : DeleteItem([T EXCEPT !.heap = h2],
                                     h2[tree].left, h2[tree].key))
    ELSE
    LET child == IF nd.left # NULL THEN nd.left ELSE nd.right
        T1 == IF tree # T.root
              THEN LET h1 == IF tree = T.heap[nd.parent].left
                             THEN [T.heap EXCEPT ![nd.parent].left = child]
                             ELSE [T.heap EXCEPT ![nd.parent].right = child]
                   IN  [T EXCEPT !.heap = [h1 EXCEPT ![child].parent = h1[tree].parent]]
              ELSE [T EXCEPT !.root = child, !.heap[child].parent = NULL]
    IN  FreeNode(T1, tree)

(***************************************************************************)
(* AVLmap::GetVisitedNodes: pushes the parent, then its parent, ... up to  *)
(* the root, so the root ends on top of the stack.                         *)
(***************************************************************************)
RECURSIVE ParentWalk(_, _, _)
ParentWalk(h, parentWalker, stack) ==
    IF parentWalker # NULL
    THEN ParentWalk(h, h[parentWalker].parent, Append(stack, parentWalker))
    ELSE stack

\* A bug: the walk starts at the node itself, which erase then frees.
GetVisitedNodesWithSelf(h, node, stack) ==
    IF h[node].parent = NULL THEN stack
    ELSE ParentWalk(h, node, stack)

GetVisitedNodes(h, node, stack) ==
    IF h[node].parent = NULL THEN stack
    ELSE ParentWalk(h, h[node].parent, stack)

(***************************************************************************)
(* AVLmap::operator[]: the result carries the node whose value the         *)
(* returned reference designates.                                          *)
(***************************************************************************)
\* A bug: the pass after an insertion does not stop at the first fix.
SubscriptFullPass(T, key) ==
    LET node == FindNode(T.heap, T.root, key) IN
    IF node # NULL
    THEN [T |-> T, ret |-> node, examined |-> <<>>, rots |-> 0, fixes |-> 0,
          trace |-> <<>>]
    ELSE Eval(InsertItem(T, T.root, T.root, key, DefaultValue, <<>>),
              LAMBDA ins :
         Eval(BalanceTree(ins.T, ins.nodes, FALSE),
              LAMBDA bal :
         [T |-> bal.T, ret |-> FindNode(bal.T.heap, bal.T.root, key),
          examined |-> bal.examined, rots |-> bal.rots, fixes |-> bal.fixes,
          trace |-> bal.trace]))

Subscript(T, key) ==
    LET node == FindNode(T.heap, T.root, key) IN
    IF node # NULL
    THEN [T |-> T, ret |-> node, examined |-> <<>>, rots |-> 0, fixes |-> 0,
          trace |-> <<>>]
    ELSE Eval(InsertItem(T, T.root, T.root, key, DefaultValue, <<>>),
              LAMBDA ins :
         Eval(BalanceTree(ins.T, ins.nodes, TRUE),
              LAMBDA bal :
         [T |-> bal.T, ret |-> FindNode(bal.T.heap, bal.T.root, key),
          examined |-> bal.examined, rots |-> bal.rots, fixes |-> bal.fixes,
          trace |-> bal.trace]))

(***************************************************************************)
(* AVLmap::find and AVLmap::erase.  An iterator is its mNode; end_it holds *)
(* nullptr.                                                                *)
(***************************************************************************)
end_it == NULL

find(T, type) == FindNode(T.heap, T.root, type)

\* AVLmap::begin
begin(T) == IF T.root # NULL THEN first(T.heap, T.root) ELSE end_it

\* A bug: the end iterator is taken for the last element.
eraseEndAsLast(T, it) ==
    LET target == IF it = end_it /\ T.root # NULL THEN last(T.heap, T.root) ELSE it
    IN  IF target = end_it
        THEN [T |-> T, examined |-> <<>>, rots |-> 0, fixes |-> 0,
          trace |-> <<>>]
        ELSE LET nodes == GetVisitedNodes(T.heap, target, <<>>)
                 T1    == DeleteItem(T, target, T.heap[target].key)
             IN  BalanceTree(T1, nodes, FALSE)

erase(T, it) ==
    IF it = end_it
    THEN [T |-> T, examined |-> <<>>, rots |-> 0, fixes |-> 0,
          trace |-> <<>>]
    ELSE LET nodes == GetVisitedNodes(T.heap, it, <<>>)
             T1    == DeleteItem(T, it, T.heap[it].key)
         IN  BalanceTree(T1, nodes, FALSE)

(***************************************************************************)
(* AVLmap::ClearTree, AVLmap::DeepCopyTree                                 *)
(***************************************************************************)
RECURSIVE ClearTree(_, _)
ClearTree(T, node) ==
    IF node = NULL THEN T
    ELSE LET tempLeft  == T.heap[node].left
             tempRight == T.heap[node].right
         IN  [ClearTree(ClearTree(FreeNode(T, node), tempLeft), tempRight)
                 EXCEPT !.root = NULL]

\* A bug: the copy takes over the source's root instead of copying the nodes.
DeepCopyTreeShare(T, root) == [T EXCEPT !.root = root]

RECURSIVE DeepCopyTree(_, _)
DeepCopyTree(T, root) ==
    IF root = NULL THEN T
    ELSE Eval(Subscript(T, T.heap[root].key),
              LAMBDA r :
         Eval([r.T EXCEPT !.heap[r.ret].value = T.heap[root].value],
              LAMBDA T1 :
         Eval(DeepCopyTree(T1, T1.heap[root].left),
              LAMBDA T2 : DeepCopyTree(T2, T2.heap[root].right))))

(***************************************************************************)
(* The state machine.  Load reads the members of object m; Store writes    *)
(* them back together with the shared heap.                                *)
(***************************************************************************)
Load(m) == [heap |-> heap, live |-> live, root |-> mRoot[m], size |-> size_[m]]

Store(m, T) ==
    /\ heap'  = T.heap
    /\ live'  = T.live
    /\ mRoot' = [mRoot EXCEPT ![m] = T.root]
    /\ size_' = [size_ EXCEPT ![m] = T.size]

\* The stored height field stays within the cap of the model.
HeightsCapped(T) == \A n \in T.live : T.heap[n].height <= MaxHeight

\* `new Node` succeeds `need` times: that many addresses are unallocated.
CanAllocate(T, need) == Cardinality(NodeIds \ T.live) >= need

\* The record of a completed call: the operation, the object it was called
\* on, its arguments, the node its result designates and the case it took.
OpRec(name, m, src, key, val, ret, kind) ==
    [name |-> name, map |-> m, src |-> src, key |-> key, val |-> val,
     ret |-> ret, kind |-> kind]

\* Which deletion case erase(it) takes.
EraseKind(h, it) ==
    IF it = end_it THEN "end"
    ELSE IF h[it].left = NULL /\ h[it].right = NULL THEN "leaf"
    ELSE IF h[it].left # NULL /\ h[it].right # NULL THEN "two"
    ELSE "one"

Init ==
    /\ heap = [n \in NodeIds |-> Freed]
    /\ live = {}
    /\ constructed = {1}
    /\ mRoot = [m \in Maps |-> NULL]
    /\ size_ = [m \in Maps |-> 0]
    /\ op = OpRec("AVLmap", 1, 0, 0, 0, NULL, "")

\* m[key];
Index(m, key) ==
    /\ m \in constructed
    /\ LET T == Load(m) IN
       /\ FindNode(T.heap, T.root, key) # NULL \/ CanAllocate(T, 1)
       /\ \E r \in {Subscript(T, key)} :
          /\ HeightsCapped(r.T)
          /\ Store(m, r.T)
          /\ op' = OpRec("subscript", m, 0, key, 0, r.ret,
                         IF FindNode(T.heap, T.root, key) # NULL
                         THEN "found" ELSE "inserted")
    /\ UNCHANGED constructed

\* m[key] = val;
Assign(m, key, val) ==
    /\ m \in constructed
    /\ LET T == Load(m) IN
       /\ FindNode(T.heap, T.root, key) # NULL \/ CanAllocate(T, 1)
       /\ \E r \in {Subscript(T, key)} :
          /\ HeightsCapped(r.T)
          /\ Store(m, [r.T EXCEPT !.heap[r.ret].value = val])
          /\ op' = OpRec("assign", m, 0, key, val, r.ret,
                         IF FindNode(T.heap, T.root, key) # NULL
                         THEN "found" ELSE "inserted")
    /\ UNCHANGED constructed

\* m.find(key);
Find(m, key) ==
    /\ m \in constructed
    /\ op' = OpRec("find", m, 0, key, 0, find(Load(m), key), "")
    /\ UNCHANGED <<heap, live, constructed, mRoot, size_>>

\* m.erase(m.find(key));
EraseFind(m, key) ==
    /\ m \in constructed
    /\ LET T == Load(m) IN
       \E it \in {find(T, key)} :
       \E r \in {erase(T, it)} :
          /\ HeightsCapped(r.T)
          /\ Store(m, r.T)
          /\ op' = OpRec("erase", m, 0, key, 0, it, EraseKind(T.heap, it))
    /\ UNCHANGED constructed

\* m.erase(m.end());
EraseEnd(m) ==
    /\ m \in constructed
    /\ \E r \in {erase(Load(m), end_it)} :
          /\ Store(m, r.T)
          /\ op' = OpRec("erase", m, 0, 0, 0, end_it, EraseKind(heap, end_it))
    /\ UNCHANGED constructed

\* AVLmap::AVLmap()
Construct(m) ==
    /\ m \notin constructed
    /\ constructed' = constructed \cup {m}
    /\ mRoot' = [mRoot EXCEPT ![m] = NULL]
    /\ size_' = [size_ EXCEPT ![m] = 0]
    /\ op' = OpRec("AVLmap", m, 0, 0, 0, NULL, "")
    /\ UNCHANGED <<heap, live>>

\* AVLmap::AVLmap(const AVLmap& rhs)
CopyConstruct(m, rhs) ==
    /\ m \notin constructed
    /\ rhs \in constructed
    /\ LET T0 == [heap |-> heap, live |-> live, root |-> NULL, size |-> 0] IN
       /\ CanAllocate(T0, size_[rhs])
       /\ \E T \in {DeepCopyTree(T0, mRoot[rhs])} :
          /\ HeightsCapped(T)
          /\ Store(m, T)
    /\ constructed' = constructed \cup {m}
    /\ op' = OpRec("copy", m, rhs, 0, 0, NULL, "")

\* AVLmap::AVLmap(AVLmap&& rhs)
MoveConstruct(m, rhs) ==
    /\ m \notin constructed
    /\ rhs \in constructed
    /\ constructed' = constructed \cup {m}
    /\ mRoot' = [mRoot EXCEPT ![m] = mRoot[rhs], ![rhs] = NULL]
    /\ size_' = [size_ EXCEPT ![m] = size_[rhs], ![rhs] = 0]
    /\ op' = OpRec("move", m, rhs, 0, 0, NULL, "")
    /\ UNCHANGED <<heap, live>>

\* AVLmap::operator=(const AVLmap& rhs)
CopyAssign(m, rhs) ==
    /\ m \in constructed
    /\ rhs \in constructed
    /\ IF m # rhs
       THEN \E T0 \in {ClearTree(Load(m), mRoot[m])} :
            /\ CanAllocate(T0, size_[rhs])
            /\ \E T \in {DeepCopyTree(T0, mRoot[rhs])} :
               /\ HeightsCapped(T)
               /\ Store(m, T)
       ELSE UNCHANGED <<heap, live, mRoot, size_>>
    /\ op' = OpRec("copy=", m, rhs, 0, 0, NULL, "")
    /\ UNCHANGED constructed

\* A bug: the destination takes the source's root and size, the source keeps
\* them too.
MoveAssignKeepSource(m, rhs) ==
    /\ m \in constructed
    /\ rhs \in constructed
    /\ mRoot' = [mRoot EXCEPT ![m] = mRoot[rhs]]
    /\ size_' = [size_ EXCEPT ![m] = size_[rhs]]
    /\ op' = OpRec("move=", m, rhs, 0, 0, NULL, "")
    /\ UNCHANGED <<heap, live, constructed>>

\* AVLmap::operator=(AVLmap&& rhs)
MoveAssign(m, rhs) ==
    /\ m \in constructed
    /\ rhs \in constructed
    /\ mRoot' = [mRoot EXCEPT ![m] = mRoot[rhs], ![rhs] = mRoot[m]]
    /\ size_' = [size_ EXCEPT ![m] = size_[rhs], ![rhs] = size_[m]]
    /\ op' = OpRec("move=", m, rhs, 0, 0, NULL, "")
    /\ UNCHANGED <<heap, live, constructed>>

\* AVLmap::~AVLmap()
Destroy(m) ==
    /\ m \in constructed
    /\ \E T \in {ClearTree(Load(m), mRoot[m])} :
       /\ heap'  = T.heap
       /\ live'  = T.live
       /\ mRoot' = [mRoot EXCEPT ![m] = NULL]
       /\ size_' = [size_ EXCEPT ![m] = 0]
    /\ constructed' = constructed \ {m}
    /\ op' = OpRec("~AVLmap", m, 0, 0, 0, NULL, "")

\* it = m.begin();  The iterator is held in op.ret; op.val counts the
\* increments applied to it.
Begin(m) ==
    /\ m \in constructed
    /\ op' = OpRec("begin", m, 0, 0, 0, begin(Load(m)), "")
    /\ UNCHANGED <<heap, live, constructed, mRoot, size_>>

\* ++it;  AVLmap_iterator::operator++ on the iterator of the preceding begin()
\* or ++, while it differs from end().
Increment(m) ==
    /\ op.name \in {"begin", "++"} /\ op.map = m
    /\ op.ret # end_it
    /\ op' = OpRec("++", m, 0, 0, op.val + 1, increment(heap, op.ret), "")
    /\ UNCHANGED <<heap, live, constructed, mRoot, size_>>

\* node = mRoot->last();  The node pointer is held in op.ret; op.val counts the
\* decrements applied to it.
Last(m) ==
    /\ m \in constructed
    /\ mRoot[m] # NULL
    /\ op' = OpRec("last", m, 0, 0, 0, last(heap, mRoot[m]), "")
    /\ UNCHANGED <<heap, live, constructed, mRoot, size_>>

\* node = node->decrement();  On the node of the preceding last() or
\* decrement(), while it is not null.
Decrement(m) ==
    /\ op.name \in {"last", "--"} /\ op.map = m
    /\ op.ret # NULL
    /\ op' = OpRec("--", m, 0, 0, op.val + 1, decrement(heap, op.ret), "")
    /\ UNCHANGED <<heap, live, constructed, mRoot, size_>>

\* One map object: find-or-insert, find, erase.
Next ==
    \/ \E k \in Keys : Index(1, k)
    \/ \E k \in Keys : Find(1, k)
    \/ \E k \in Keys : EraseFind(1, k)
    \/ EraseEnd(1)

Spec == Init /\ [][Next]_vars

\* One map object, find-or-insert only.
NextInsert == \E k \in InsKeys : Index(1, k)

SpecInsert == Init /\ [][NextInsert]_vars

\* One map object, with values written through the returned reference.
NextValues ==
    \/ \E k \in ValKeys : Index(1, k)
    \/ \E k \in ValKeys, v \in Values : Assign(1, k, v)
    \/ \E k \in ValKeys : EraseFind(1, k)

SpecValues == Init /\ [][NextValues]_vars

\* One map object: find-or-insert and erase, and between them walks over the
\* nodes, forwards from begin() and backwards from the last node.
NextIter ==
    \/ \E k \in Keys : Index(1, k)
    \/ \E k \in Keys : EraseFind(1, k)
    \/ Begin(1)
    \/ Increment(1)
    \/ Last(1)
    \/ Decrement(1)

SpecIter == Init /\ [][NextIter]_vars

\* Two map objects: object 1 lives throughout and is inserted into and erased
\* from; object 2 is constructed, copied, moved, assigned and destroyed.
NextMaps ==
    \/ \E k \in MapsKeys : Index(1, k)
    \/ \E k \in MapsKeys : EraseFind(1, k)
    \/ Construct(2)
    \/ CopyConstruct(2, 1)
    \/ MoveConstruct(2, 1)
    \/ \E m \in Maps, rhs \in Maps : CopyAssign(m, rhs)
    \/ \E m \in Maps, rhs \in Maps : MoveAssign(m, rhs)
    \/ Destroy(2)

SpecMaps == Init /\ [][NextMaps]_vars

\* Two map objects, both written through operator[] (which inserts absent
\* keys) and erased from; object 2 is made as a copy of object 1 and either is
\* copy-assigned from the other.
NextCopy ==
    \/ \E m \in Maps, k \in CopyKeys, v \in Values : Assign(m, k, v)
    \/ \E m \in Maps, k \in CopyKeys : EraseFind(m, k)
    \/ CopyConstruct(2, 1)
    \/ \E m \in Maps, rhs \in Maps : CopyAssign(m, rhs)
    \/ Destroy(2)

SpecCopy == Init /\ [][NextCopy]_vars

\* A call of the private RotateRight on a node of the tree that has a left
\* child, through a local pointer variable as BalanceTree makes it.
RotateRightAt(m, n) ==
    /\ m \in constructed
    /\ n \in live /\ heap[n].left # NULL
    /\ \E r \in {RotateRight(Load(m), n)} :
          /\ Store(m, r.T)
          /\ op' = OpRec("RotateRight", m, 0, heap[n].key, 0, n,
                         IF n = mRoot[m] THEN "root" ELSE "inner")
    /\ UNCHANGED constructed

\* A call of the private RotateLeft on a node that has a right child.
RotateLeftAt(m, n) ==
    /\ m \in constructed
    /\ n \in live /\ heap[n].right # NULL
    /\ \E r \in {RotateLeft(Load(m), n)} :
          /\ Store(m, r.T)
          /\ op' = OpRec("RotateLeft", m, 0, heap[n].key, 0, n,
                         IF n = mRoot[m] THEN "root" ELSE "inner")
    /\ UNCHANGED constructed

\* One map object: insertions build trees and the rotation primitives are
\* applied to any node that has the child to be promoted, so that every
\* shape of search tree over the keys is rotated at every place.
NextRotate ==
    \/ \E k \in Keys : Index(1, k)
    \/ \E n \in NodeIds : RotateRightAt(1, n)
    \/ \E n \in NodeIds : RotateLeftAt(1, n)

SpecRotate == Init /\ [][NextRotate]_vars

(***************************************************************************)
(* What the properties speak about: the nodes reachable from a root by     *)
(* child links, their keys and (key, value) pairs, and the true height of  *)
(* a subtree (-1 for an absent one).                                       *)
(***************************************************************************)
RECURSIVE Nodes(_, _)
Nodes(h, n) ==
    IF n = NULL THEN {}
    ELSE {n} \cup Nodes(h, h[n].left) \cup Nodes(h, h[n].right)

KeysOf(h, n) == {h[x].key : x \in Nodes(h, n)}

PairsOf(h, n) == {<<h[x].key, h[x].value>> : x \in Nodes(h, n)}

RECURSIVE TrueHeight(_, _)
TrueHeight(h, n) ==
    IF n = NULL THEN -1
    ELSE LET l == TrueHeight(h, h[n].left)
             r == TrueHeight(h, h[n].right)
         IN  1 + (IF l > r THEN l ELSE r)

Balanced(m) ==
    \A n \in Nodes(heap, mRoot[m]) :
        LET d == TrueHeight(heap, heap[n].left) - TrueHeight(heap, heap[n].right)
        IN  d \in {-1, 0, 1}

IsBST(m) ==
    \A n \in Nodes(heap, mRoot[m]) :
        /\ \A x \in Nodes(heap, heap[n].left)  : heap[x].key < heap[n].key
        /\ \A x \in Nodes(heap, heap[n].right) : heap[x].key > heap[n].key

\* The state of the one map object of Spec, SpecInsert and SpecValues.
TheNodes == Nodes(heap, mRoot[1])
TheKeys  == KeysOf(heap, mRoot[1])
ThePairs == PairsOf(heap, mRoot[1])
Members  == <<heap, live, mRoot, size_>>

(***************************************************************************)
(* C1.  From an empty map, after every find-or-insert call every node has  *)
(* subtrees whose true heights differ by at most 1 (SpecInsert).           *)
(***************************************************************************)
C1_InsertKeepsBalance == Balanced(1)

\* An insertion that took a double rotation at the root: the new node is the
\* root of a three-node tree.
C1_Witness ==
    /\ op.name = "subscript" /\ op.kind = "inserted"
    /\ size_[1] = 3
    /\ op.ret = mRoot[1]
    /\ Balanced(1)

(***************************************************************************)
(* C2.  After every erase(find(k)) every node has subtrees whose true      *)
(* heights differ by at most 1.  The code does not keep this: erase only   *)
(* examines the proper ancestors of the iterator's node, so the node       *)
(* itself is never rebalanced in the two-children case.                    *)
(***************************************************************************)
C2_EraseKeepsBalance == (op.name = "erase") => Balanced(1)

(***************************************************************************)
(* C3.  After every find-or-insert and erase the tree is a binary search   *)
(* tree without duplicate keys: keys in a left subtree are smaller than    *)
(* the node's key, keys in a right subtree larger.                         *)
(***************************************************************************)
C3_SearchTree == IsBST(1)

\* A two-children erase has just overwritten a node with its predecessor's data.
C3_Witness ==
    /\ op.name = "erase" /\ op.kind = "two"
    /\ size_[1] >= 2
    /\ IsBST(1)

(***************************************************************************)
(* C4.  The (key, value) pairs stored in the tree follow a reference       *)
(* finite map driven by the same calls: m[k] adds (k, default) when k is   *)
(* absent and changes nothing otherwise, m[k] = v leaves k with v, and     *)
(* erase(find(k)) removes exactly k; every other key keeps its value, also *)
(* when a two-children erase copies the predecessor's data up.  Each key   *)
(* is stored once (SpecValues).                                            *)
(***************************************************************************)
C4_RefinesMap ==
    [][ LET k     == op'.key
            others == {q \in ThePairs : q[1] # k}
        IN  /\ Cardinality(ThePairs') = Cardinality(TheKeys')
            /\ Cardinality(TheNodes') = Cardinality(TheKeys')
            /\ (op'.name = "subscript" /\ k \in TheKeys) => ThePairs' = ThePairs
            /\ (op'.name = "subscript" /\ k \notin TheKeys) =>
                    ThePairs' = ThePairs \cup {<<k, DefaultValue>>}
            /\ (op'.name = "assign") => ThePairs' = others \cup {<<k, op'.val>>}
            /\ (op'.name = "erase") => ThePairs' = others
      ]_vars

\* A two-children erase has copied a non-default value up and another key
\* still holds a non-default value.
C4_Witness ==
    /\ op.name = "erase" /\ op.kind = "two"
    /\ size_[1] = 2
    /\ \A q \in ThePairs : q[2] # DefaultValue

(***************************************************************************)
(* C5.  After every public operation (construction, find-or-insert, erase, *)
(* copy, move, destruction) the size counter of each map object equals the *)
(* number of nodes reachable from its root (SpecMaps).                     *)
(***************************************************************************)
C5_SizeIsNodeCount ==
    \A m \in Maps : size_[m] = Cardinality(Nodes(heap, mRoot[m]))

\* A copy assignment has replaced a non-empty map by a two-node copy.
C5_Witness ==
    /\ op.name = "copy="
    /\ op.map # op.src
    /\ size_[1] = 2 /\ size_[2] = 2
    /\ Nodes(heap, mRoot[1]) \cap Nodes(heap, mRoot[2]) = {}

(***************************************************************************)
(* C6.  After every public operation parent links mirror child links: for  *)
(* all nodes c and n, c.parent = n exactly when n.left = c or n.right = c, *)
(* and the root has no parent.                                             *)
(***************************************************************************)
C6_ParentLinks ==
    /\ TheNodes = live
    /\ \A c \in live : \A n \in live :
          (heap[c].parent = n) <=> (heap[n].left = c \/ heap[n].right = c)
    /\ mRoot[1] # NULL => heap[mRoot[1]].parent = NULL

\* Erasing leaf 4 has left key 2 at the root with 1 and 3 below it (from the
\* tree 3(1(-,2),4) this takes a left and a right rotation).
C6_Witness ==
    /\ op.name = "erase" /\ op.kind = "leaf" /\ op.key = 4
    /\ size_[1] = 3
    /\ heap[mRoot[1]].key = 2
    /\ heap[mRoot[1]].left # NULL /\ heap[mRoot[1]].right # NULL

(***************************************************************************)
(* C7.  find(key) returns the node holding key when the key is in the map  *)
(* and end() when it is not, and leaves root, size and every node          *)
(* unchanged.                                                              *)
(***************************************************************************)
C7_Find ==
    [][ op'.name = "find" =>
          /\ Members' = Members
          /\ op'.key \in TheKeys =>
                op'.ret \in TheNodes /\ heap[op'.ret].key = op'.key
          /\ op'.key \notin TheKeys => op'.ret = end_it
      ]_vars

\* find has returned a node two levels below the root.
C7_Witness ==
    /\ op.name = "find"
    /\ op.ret \in TheNodes
    /\ heap[op.ret].parent # NULL
    /\ heap[heap[op.ret].parent].parent # NULL

(***************************************************************************)
(* C8.  operator[] on a key that is in the map leaves size and every node  *)
(* unchanged and returns the one node holding the key; no state holds two  *)
(* nodes with the same key.                                                *)
(***************************************************************************)
C8_SubscriptIdempotent ==
    [][ /\ Cardinality(TheNodes') = Cardinality(TheKeys')
        /\ (op'.name = "subscript" /\ op'.key \in TheKeys) =>
              /\ Members' = Members
              /\ op'.ret \in TheNodes
              /\ heap[op'.ret].key = op'.key
      ]_vars

\* operator[] has been called on a key that a node below the root holds.
C8_Witness ==
    /\ op.name = "subscript" /\ op.kind = "found"
    /\ op.ret \in TheNodes \ {mRoot[1]}
    /\ size_[1] >= 3

(***************************************************************************)
(* C9.  Every erase of a present node decreases size by exactly 1 and      *)
(* removes exactly one node, in the leaf, one-child and two-children case. *)
(***************************************************************************)
C9_EraseDecrementsSize ==
    [][ (op'.name = "erase" /\ op'.key \in TheKeys) =>
          /\ op'.kind \in {"leaf", "one", "two"}
          /\ size_'[1] = size_[1] - 1
          /\ Cardinality(TheNodes') = Cardinality(TheNodes) - 1
          /\ Cardinality(live') = Cardinality(live) - 1
      ]_vars

\* A two-children erase has taken a map of four nodes to three.
C9_Witness == op.name = "erase" /\ op.kind = "two" /\ size_[1] = 3

(***************************************************************************)
(* C10.  erase called with the end iterator, also as the result of find on *)
(* an absent key, changes nothing: root, size and every node stay as they  *)
(* were, on an empty and on a non-empty map.                               *)
(***************************************************************************)
C10_EraseEndNoOp ==
    [][ (op'.name = "erase" /\ op'.key \notin TheKeys) =>
          /\ op'.ret = end_it
          /\ Members' = Members
      ]_vars

\* erase(find(k)) has been called for an absent k on a map of three nodes.
C10_Witness ==
    /\ op.name = "erase" /\ op.ret = end_it /\ op.key \in Keys
    /\ size_[1] = 3

(***************************************************************************)
(* C11.  An iterator is a node address.  As claimed: across erase(find(k)) *)
(* every node holding another key k2 stays allocated and keeps its key and *)
(* value.  The code does not do this in the two-children case, where the   *)
(* node of k takes over the data of its in-order predecessor and it is the *)
(* predecessor's node that is freed.                                       *)
(***************************************************************************)
C11_IteratorsSurviveErase ==
    [][ (op'.name = "erase" /\ op'.key \in TheKeys) =>
          \A n \in TheNodes :
             heap[n].key # op'.key =>
                /\ n \in live'
                /\ heap'[n].key = heap[n].key
                /\ heap'[n].value = heap[n].value
      ]_vars

(***************************************************************************)
(* C11 as amended.  Across erase(find(k)) every node holding another key   *)
(* k2 stays allocated and keeps its key and value, except the in-order     *)
(* predecessor of k when k's node has two children: that node is freed,    *)
(* and its key and value are held by the node that held k, which stays     *)
(* allocated (SpecValues).                                                 *)
(***************************************************************************)
C11_IteratorsSurviveEraseAmended ==
    [][ (op'.name = "erase" /\ op'.key \in TheKeys) =>
          \A n \in TheNodes :
             heap[n].key # op'.key =>
                IF op'.kind = "two" /\ n = decrement(heap, op'.ret)
                THEN /\ n \notin live'
                     /\ op'.ret \in live'
                     /\ heap'[op'.ret].key = heap[n].key
                     /\ heap'[op'.ret].value = heap[n].value
                ELSE /\ n \in live'
                     /\ heap'[n].key = heap[n].key
                     /\ heap'[n].value = heap[n].value
      ]_vars

\* A two-children erase has left the erased key's node allocated, holding a
\* smaller key with a written value, beside a node that kept the default value.
C11_Witness ==
    /\ op.name = "erase" /\ op.kind = "two"
    /\ op.ret \in live
    /\ heap[op.ret].key < op.key
    /\ heap[op.ret].value # DefaultValue
    /\ \E n \in live \ {op.ret} : heap[n].value = DefaultValue

(***************************************************************************)
(* C12.  After any insertions and erasures, the iterator that begin() has  *)
(* returned and that was incremented i times is at the node holding the    *)
(* key with exactly i smaller keys in the map, for i below size(), and     *)
(* equals end() for i = size(): begin() is the smallest key (end() on an   *)
(* empty map), the keys come in strictly ascending order, each once, and   *)
(* end() is reached after exactly size() steps (SpecIter).                 *)
(***************************************************************************)
C12_ForwardTraversal ==
    op.name \in {"begin", "++"} =>
        IF op.val < size_[1]
        THEN /\ op.ret \in TheNodes
             /\ Cardinality({k \in TheKeys : k < heap[op.ret].key}) = op.val
        ELSE /\ op.val = size_[1]
             /\ op.ret = end_it

\* A walk over four keys has reached end(), after erasures.
C12_Witness ==
    /\ op.name = "++" /\ op.ret = end_it /\ op.val = 4
    /\ Cardinality(live) = 4
    /\ \E n \in live : n # heap[n].key

(***************************************************************************)
(* C13.  After any insertions and erasures on a non-empty map, the node    *)
(* that last(root) has returned and that decrement was applied to i times  *)
(* holds the key with exactly i larger keys in the map, for i below the    *)
(* size, and is the absent node for i = size: the keys come in strictly    *)
(* descending order, each once, and the absent node follows the smallest   *)
(* key (SpecIter).                                                         *)
(***************************************************************************)
C13_BackwardTraversal ==
    op.name \in {"last", "--"} =>
        IF op.val < size_[1]
        THEN /\ op.ret \in TheNodes
             /\ Cardinality({k \in TheKeys : k > heap[op.ret].key}) = op.val
        ELSE /\ op.val = size_[1]
             /\ op.ret = NULL

\* A backward walk over four keys has returned the absent node, in a tree
\* whose root has no left child.
C13_Witness ==
    /\ op.name = "--" /\ op.ret = NULL /\ op.val = 4
    /\ Cardinality(live) = 4
    /\ heap[mRoot[1]].left = NULL

\* A step leaves object o as it was: its root, its size and each of its nodes.
SameObject(o) ==
    /\ mRoot'[o] = mRoot[o]
    /\ size_'[o] = size_[o]
    /\ \A n \in Nodes(heap, mRoot[o]) : n \in live' /\ heap'[n] = heap[n]

C15_MoveEmptiesSource ==
    [][ \A d \in Maps : \A s \in Maps \ {d} :
          (op'.name \in {"move", "move="} /\ op'.map = d /\ op'.src = s) =>
             /\ mRoot'[d] = mRoot[s] /\ size_'[d] = size_[s]
             /\ mRoot'[s] = NULL /\ size_'[s] = 0
             /\ heap' = heap /\ live' = live
      ]_vars

(***************************************************************************)
(* C15 as amended.  After move construction from S to D, D holds S's       *)
(* former root and size and S is empty.  After move assignment from S to   *)
(* D, D holds S's former root and size and S holds D's former root and     *)
(* size: the two are exchanged, so S is empty only when D was, and a       *)
(* self-assignment changes nothing.  In both, no node was copied or freed  *)
(* (SpecMaps).                                                             *)
(***************************************************************************)
C15_MoveAmended ==
    [][ \A d \in Maps : \A s \in Maps :
          /\ (op'.name = "move" /\ op'.map = d /\ op'.src = s) =>
                /\ mRoot'[d] = mRoot[s] /\ size_'[d] = size_[s]
                /\ mRoot'[s] = NULL /\ size_'[s] = 0
                /\ heap' = heap /\ live' = live
          /\ (op'.name = "move=" /\ op'.map = d /\ op'.src = s) =>
                /\ mRoot'[d] = mRoot[s] /\ size_'[d] = size_[s]
                /\ mRoot'[s] = mRoot[d] /\ size_'[s] = size_[d]
                /\ heap' = heap /\ live' = live
      ]_vars

\* A move assignment between two non-empty objects of different sizes.
C15_Witness ==
    /\ op.name = "move=" /\ op.map = 1 /\ op.src = 2
    /\ size_[1] = 1 /\ size_[2] = 2
    /\ mRoot[1] # NULL /\ mRoot[2] # NULL /\ mRoot[1] # mRoot[2]

(***************************************************************************)
(* C16.  Whatever keys were inserted and in whatever order they are        *)
(* erased, each erase(find(k)) of a present key removes exactly k from the *)
(* key set, frees exactly one allocated node and lowers size by one, and   *)
(* the erase that removes the last key leaves size 0, a null root and no   *)
(* allocated node.                                                         *)
(***************************************************************************)
C16_EraseAllEmpties ==
    [][ (op'.name = "erase" /\ op'.key \in TheKeys) =>
          /\ TheKeys' = TheKeys \ {op'.key}
          /\ \E n \in live : live' = live \ {n}
          /\ size_'[1] = size_[1] - 1
          /\ TheNodes' = live'
          /\ TheKeys' = {} => (size_'[1] = 0 /\ mRoot'[1] = NULL /\ live' = {})
      ]_vars

\* The erase of the root key of a one-node tree has emptied the map, and the
\* node was not at the address it was allocated at for that key: an earlier
\* two-children erase had moved the key there.
C16_Witness ==
    /\ op.name = "erase" /\ op.kind = "leaf"
    /\ op.ret # op.key
    /\ mRoot[1] = NULL /\ size_[1] = 0 /\ live = {}

\* The shape of the tree of object 1: each key with the key of its parent
\* (0 for the root).
Shape ==
    {<<heap[n].key, IF heap[n].parent = NULL THEN 0 ELSE heap[heap[n].parent].key>> :
        n \in TheNodes}

\* The trees of the scenario: Ascending[k] is the tree claimed to hold the keys
\* 1..k after they were inserted in ascending order.
Ascending ==
    << {<<1, 0>>},
       {<<1, 0>>, <<2, 1>>},
       {<<2, 0>>, <<1, 2>>, <<3, 2>>},
       {<<2, 0>>, <<1, 2>>, <<3, 2>>, <<4, 3>>},
       {<<2, 0>>, <<1, 2>>, <<4, 2>>, <<3, 4>>, <<5, 4>>},
       {<<4, 0>>, <<2, 4>>, <<1, 2>>, <<3, 2>>, <<5, 4>>, <<6, 5>>},
       {<<4, 0>>, <<2, 4>>, <<1, 2>>, <<3, 2>>, <<6, 4>>, <<5, 6>>, <<7, 6>> } >>

(***************************************************************************)
(* C17.  Inserting the keys 1, 2, ..., 7 in ascending order into an empty  *)
(* map: the insertion of key k into the tree the scenario has reached for  *)
(* 1..k-1 calls at most one rotation and yields the scenario's tree for    *)
(* 1..k; the tree for 1..7 has root 4 with children 2 and 6 and leaves 1,  *)
(* 3, 5, 7, of height 2 (SpecInsert).                                      *)
(***************************************************************************)
C17_AscendingScenario ==
    [][ \A k \in 1..7 :
          ( /\ op'.name = "subscript" /\ op'.key = k
            /\ TheKeys = 1..(k - 1)
            /\ k > 1 => Shape = Ascending[k - 1] ) =>
               /\ Shape' = Ascending[k]
               /\ Subscript(Load(1), k).rots <= 1
               /\ (k = 7) => /\ heap'[mRoot'[1]].key = 4
                             /\ TrueHeight(heap', mRoot'[1]) = 2
                             /\ size_'[1] = 7
      ]_vars

\* The seventh insertion of the scenario has been made.
C17_Witness ==
    /\ op.name = "subscript" /\ op.kind = "inserted" /\ op.key = 7
    /\ Shape = Ascending[7]
    /\ \A n \in TheNodes : heap[n].left = NULL <=> heap[n].right = NULL

(***************************************************************************)
(* C18.  From the tree with the middle key at the root and the smallest    *)
(* and the largest key as its children (10, 20, 30 in the scenario; 1, 2,  *)
(* 3 here, the code only compares keys), erasing the middle key leaves the *)
(* root node in place holding the smallest key and its value, frees the    *)
(* node that held the smallest key, and leaves the root with no left       *)
(* child, the node of the largest key as right child, and size 2           *)
(* (SpecValues).                                                           *)
(***************************************************************************)
C18_EraseRootScenario ==
    [][ ( /\ op'.name = "erase" /\ op'.key = 2
          /\ Shape = {<<2, 0>>, <<1, 2>>, <<3, 2>>} ) =>
             LET root == mRoot[1]
                 l    == heap[root].left
                 r    == heap[root].right
             IN  /\ mRoot'[1] = root
                 /\ root \in live'
                 /\ heap'[root].key = heap[l].key
                 /\ heap'[root].value = heap[l].value
                 /\ l \notin live'
                 /\ heap'[root].left = NULL
                 /\ heap'[root].right = r
                 /\ heap'[r].parent = root
                 /\ heap'[r].key = 3 /\ heap'[r].value = heap[r].value
                 /\ size_'[1] = 2
                 /\ Shape' = {<<1, 0>>, <<3, 1>>}
      ]_vars

\* The scenario has been run on a tree whose smallest key held a written value
\* and whose largest key held the default value.
C18_Witness ==
    /\ op.name = "erase" /\ op.kind = "two" /\ op.key = 2
    /\ op.ret = mRoot[1]
    /\ Shape = {<<1, 0>>, <<3, 1>>}
    /\ ThePairs = {<<1, 1>>, <<3, DefaultValue>>}

\* The proper ancestors of node n, by parent links.
RECURSIVE AncestorsOf(_, _)
AncestorsOf(h, n) ==
    IF h[n].parent = NULL THEN {}
    ELSE {h[n].parent} \cup AncestorsOf(h, h[n].parent)

\* The nodes the rebalancing pass of erase(find(key)) examines, in order, when
\* called in the current state.
ErasePass(key) == erase(Load(1), find(Load(1), key)).examined

(***************************************************************************)
(* C19.  The rebalancing pass of erase examines the ancestors from the one *)
(* nearest to the removed node up to the root: of two examined nodes, the  *)
(* one examined later is an ancestor of the one examined earlier.  The     *)
(* code does not do this: GetVisitedNodes pushes the parent first and the  *)
(* root last, so BalanceTree pops the root first.                          *)
(***************************************************************************)
C19_EraseExaminesBottomUp ==
    [][ (op'.name = "erase" /\ op'.key \in TheKeys) =>
          LET examined == ErasePass(op'.key)
          IN  \A i \in 1..Len(examined) : \A j \in 1..Len(examined) :
                 i < j => examined[j] \in AncestorsOf(heap, examined[i])
      ]_vars

(***************************************************************************)
(* C20.  erase examines for imbalance every node on the path from the      *)
(* parent of the physically removed node up to the root, also after a      *)
(* rotation: every ancestor of the node that the erase frees is among the  *)
(* examined nodes, which in the two-children case includes the iterator's  *)
(* node and the nodes between it and the predecessor.  The code does not   *)
(* do this: it collects the ancestors of the iterator's node before the    *)
(* deletion, and the two-children case frees the predecessor's node.       *)
(***************************************************************************)
C20_EraseExaminesWholePath ==
    [][ (op'.name = "erase" /\ op'.key \in TheKeys) =>
          LET examined == ErasePass(op'.key)
          IN  \A removed \in live \ live' :
                 \A a \in AncestorsOf(heap, removed) :
                    \E i \in 1..Len(examined) : examined[i] = a
      ]_vars

\* The nodes a search for `key` passes below n, the deepest one first: the
\* ancestors-to-be of a leaf inserted with that key, nearest first.
RECURSIVE SearchPathUp(_, _, _)
SearchPathUp(h, n, key) ==
    IF n = NULL \/ h[n].key = key THEN <<>>
    ELSE SearchPathUp(h, IF key < h[n].key THEN h[n].left ELSE h[n].right, key)
             \o <<n>>

\* The heap after the new leaf is attached and before any rebalancing.
HeapWithLeaf(key) ==
    InsertItem(Load(1), mRoot[1], mRoot[1], key, DefaultValue, <<>>).T.heap

OutOfBalance(h, n) ==
    Abs(TrueHeight(h, h[n].left) - TrueHeight(h, h[n].right)) > 1

(***************************************************************************)
(* C21.  An insertion examines the ancestors of the new leaf nearest       *)
(* first and stops at the first one out of balance: the examined nodes are *)
(* an initial part of the leaf's ancestors taken upwards, only the last    *)
(* examined node can be out of balance, at most one corrective step of at  *)
(* most two rotations is made, and a pass without a step examines all      *)
(* ancestors (SpecInsert).                                                 *)
(***************************************************************************)
C21_InsertStopsAtFirstFix ==
    [][ (op'.name = "subscript" /\ op'.kind = "inserted") =>
          LET pass == Subscript(Load(1), op'.key)
              up   == SearchPathUp(heap, mRoot[1], op'.key)
              hl   == HeapWithLeaf(op'.key)
              n    == Len(pass.examined)
          IN  /\ pass.T.heap = heap' /\ pass.T.root = mRoot'[1]
              /\ n <= Len(up)
              /\ \A i \in 1..n : pass.examined[i] = up[i]
              /\ \A i \in 1..n : OutOfBalance(hl, up[i]) => i = n
              /\ pass.fixes <= 1 /\ pass.rots <= 2
              /\ pass.fixes = 1 <=> (n > 0 /\ OutOfBalance(hl, up[n]))
              /\ pass.fixes = 0 => n = Len(up)
      ]_vars

\* An insertion whose new node was lifted by a double rotation below the
\* root: the step was made at an ancestor that has ancestors above it.
C21_Witness ==
    /\ op.name = "subscript" /\ op.kind = "inserted"
    /\ op.ret # mRoot[1]
    /\ heap[op.ret].left # NULL /\ heap[op.ret].right # NULL

\* The keys of the subtree of n from left to right.
RECURSIVE InOrder(_, _)
InOrder(h, n) ==
    IF n = NULL THEN <<>>
    ELSE InOrder(h, h[n].left) \o <<h[n].key>> \o InOrder(h, h[n].right)

\* The three links of a node.
Links(h, n) == <<h[n].parent, h[n].left, h[n].right>>

\* The last call was a rotation primitive; op.ret is the rotated node.
Rotated == op.name \in {"RotateRight", "RotateLeft"}

(***************************************************************************)
(* C22.  A rotation primitive applied to a node y whose child x on the     *)
(* promoted side exists keeps the left-to-right key sequence and the node  *)
(* set of the tree; x takes the place of y under y's former parent, or     *)
(* becomes the root when y was the root; y becomes the child of x on the   *)
(* other side and receives the former inner subtree t of x; apart from the *)
(* former parent's slot, only the links of y, x and t change, and of those *)
(* only the three parent links and the two child links named (SpecRotate). *)
(***************************************************************************)
C22_RotationFrame ==
    [][ Rotated' =>
          LET right == op'.name = "RotateRight"
              y == op'.ret
              x == IF right THEN heap[y].left ELSE heap[y].right
              t == IF right THEN heap[x].right ELSE heap[x].left
              p == heap[y].parent
          IN  /\ InOrder(heap', mRoot'[1]) = InOrder(heap, mRoot[1])
              /\ Nodes(heap', mRoot'[1]) = Nodes(heap, mRoot[1])
              /\ heap'[x].parent = p
              /\ p # NULL =>
                    /\ mRoot'[1] = mRoot[1]
                    /\ heap[p].left = y  => Links(heap', p) = <<heap[p].parent, x, heap[p].right>>
                    /\ heap[p].right = y => Links(heap', p) = <<heap[p].parent, heap[p].left, x>>
              /\ (y = mRoot[1]) => (mRoot'[1] = x /\ p = NULL)
              /\ heap'[y].parent = x
              /\ IF right
                 THEN /\ Links(heap', y) = <<x, t, heap[y].right>>
                      /\ Links(heap', x) = <<p, heap[x].left, y>>
                 ELSE /\ Links(heap', y) = <<x, heap[y].left, t>>
                      /\ Links(heap', x) = <<p, y, heap[x].right>>
              /\ t # NULL => Links(heap', t) = <<y, heap[t].left, heap[t].right>>
              /\ \A n \in live \ {y, x, t, p} : Links(heap', n) = Links(heap, n)
              /\ \A n \in live : /\ heap'[n].key = heap[n].key
                                 /\ heap'[n].value = heap[n].value
              /\ live' = live /\ size_' = size_
      ]_vars

\* A rotation below the root that handed a subtree over: the rotated node
\* has a parent above the promoted node, and the promoted-side child of the
\* rotated node is the transplanted subtree.
C22_Witness ==
    /\ Rotated /\ op.kind = "inner"
    /\ heap[heap[op.ret].parent].parent # NULL
    /\ IF op.name = "RotateRight"
       THEN heap[op.ret].left # NULL
       ELSE heap[op.ret].right # NULL

\* The number of edges from the root down to n.
RECURSIVE Depth(_, _)
Depth(h, n) == IF h[n].parent = NULL THEN 0 ELSE 1 + Depth(h, h[n].parent)

C24_HeightIsDepth ==
    \A n \in Nodes(heap, mRoot[1]) : heap[n].height = Depth(heap, n)

\* The balance factor of n: true height of the left subtree minus that of
\* the right subtree.
BalanceFactor(h, n) == TrueHeight(h, h[n].left) - TrueHeight(h, h[n].right)

\* The node that hangs, in heap h2 under root r2, in the slot that node y
\* occupied in heap h: the root, or the same-side child of y's parent.
InSlotOf(h, y, h2, r2) ==
    IF h[y].parent = NULL THEN r2
    ELSE IF h[h[y].parent].left = y THEN h2[h[y].parent].left
    ELSE h2[h[y].parent].right

(***************************************************************************)
(* C25.  When an insertion into a balanced tree makes a corrective step at *)
(* ancestor y, the subtree hanging afterwards where y hung has the true    *)
(* height y's subtree had before the insertion; every ancestor above y     *)
(* keeps its balance factor, and the whole tree is balanced after the      *)
(* call (SpecInsert).                                                      *)
(***************************************************************************)
C25_FixRestoresHeight ==
    [][ ( /\ op'.name = "subscript" /\ op'.kind = "inserted"
          /\ Balanced(1)
          /\ Subscript(Load(1), op'.key).fixes = 1 ) =>
          LET pass == Subscript(Load(1), op'.key)
              y    == pass.examined[Len(pass.examined)]
          IN  /\ TrueHeight(heap', InSlotOf(heap, y, heap', mRoot'[1]))
                    = TrueHeight(heap, y)
              /\ \A a \in AncestorsOf(heap, y) \ {NULL} :
                    BalanceFactor(heap', a) = BalanceFactor(heap, a)
              /\ Balanced(1)'
      ]_vars

\* An insertion into a six-node tree whose new node was lifted by a double
\* rotation below the root: the step was made at an ancestor under the
\* root, and the tree is the complete tree of height 2.
C25_Witness ==
    /\ op.name = "subscript" /\ op.kind = "inserted"
    /\ size_[1] = 7
    /\ heap[op.ret].parent = mRoot[1]
    /\ heap[op.ret].left # NULL /\ heap[op.ret].right # NULL
    /\ TrueHeight(heap, mRoot[1]) = 2

\* The trace of the rebalancing pass of the call that op' records: the pass
\* of an inserting find-or-insert call or of an erase of a present key.
PassTrace ==
    IF op'.name = "subscript" /\ op'.kind = "inserted"
    THEN Subscript(Load(1), op'.key).trace
    ELSE IF op'.name = "erase" /\ op'.ret # end_it
    THEN erase(Load(1), op'.ret).trace
    ELSE <<>>

\* Node n is allocated and hangs in the tree of state T.
LiveInTree(T, n) == n # NULL /\ n \in T.live /\ n \in Nodes(T.heap, T.root)

(***************************************************************************)
(* C26.  In every rebalancing pass, after an insertion or an erase, each   *)
(* node popped from the stack is an allocated node of the tree at the      *)
(* moment it is popped, each child pointer read through is an allocated    *)
(* node of the tree, and each rotation is called on a node of the tree     *)
(* whose child to be promoted exists and, below the root, whose parent     *)
(* exists (Spec).                                                          *)
(***************************************************************************)
C26_PassTouchesLiveNodes ==
    [][ \A i \in 1..Len(PassTrace) :
          LET e == PassTrace[i]
              n == e.T.heap[e.node]
          IN  /\ LiveInTree(e.T, e.node)
              /\ e.fn = "RotateRight" => LiveInTree(e.T, n.left)
              /\ e.fn = "RotateLeft"  => LiveInTree(e.T, n.right)
              /\ (e.fn \in {"RotateRight", "RotateLeft"} /\ e.node # e.T.root)
                    => LiveInTree(e.T, n.parent)
      ]_vars

\* An insertion whose pass made a double rotation at the root (the new node
\* is the root of three nodes) in a tree that an earlier two-children erase
\* has copied a key in: a node holds a key other than the one it was
\* allocated for.
C26_Witness ==
    /\ op.name = "subscript" /\ op.kind = "inserted"
    /\ size_[1] = 3 /\ op.ret = mRoot[1]
    /\ \E n \in TheNodes : heap[n].key # n

=============================================================================
